---------------------------- MODULE Spec2Model ----------------------------
(***************************************************************************)
(* FunctionApproximatorRRRFF (DmpBbo): training, prediction, cloning and   *)
(* grid export of the random-Fourier-feature regressor.                    *)
(*                                                                         *)
(* Numbers.  Angles are counted in quarter turns (pi/2), so that the       *)
(* cosine of every angle the model forms is exactly 1, 0 or -1.  The       *)
(* fitted weights are rationals: a matrix of numerators over one common    *)
(* denominator (the determinant of the normal matrix); a denominator of 0  *)
(* is the non-finite result of inverting a singular matrix.                *)
(***************************************************************************)
EXTENDS Integers, Sequences, FiniteSets, TLC

\* ------------------------------------------------------------------ bounds
MaxBasis  == 2   \* number_of_basis_functions_ ranges over 1..MaxBasis
MaxDim    == 2   \* input dimensions (expected and supplied) range over 1..MaxDim
MaxRows   == 2   \* rows of a training or query matrix range over 1..MaxRows
MaxOutDim == 2   \* columns of a target matrix range over 1..MaxOutDim

Approximators == {"fa", "copy"}
Regularizations == {0, 1}
Seeds == {0, 1}                  \* values of getpid() + time(0)
GridSamples == {2}               \* samples per dimension of a saved grid
Gammas == {2}                    \* values of the meta-parameter gamma_
Files == <<"n_samples_per_dim.txt", "inputs_grid.txt", "activations_grid.txt",
           "activations_weighted_grid.txt", "predictions_grid.txt">>
Directories == {"", "grid"}

NULL == <<>>

\* ------------------------------------------------------------ matrices
Rows(m) == Len(m)
Cols(m) == IF Len(m) = 0 THEN 0 ELSE Len(m[1])

RECURSIVE SumTo(_, _)
SumTo(f, n) == IF n = 0 THEN 0 ELSE f[n] + SumTo(f, n - 1)

\* Eigen's operator* on two dense matrices: the inner dimension is a.cols().
MatMul(a, b) ==
  [i \in 1..Rows(a) |->
     [j \in 1..Cols(b) |-> SumTo([k \in 1..Cols(a) |-> a[i][k] * b[k][j]], Cols(a))]]

Transpose(a) == [j \in 1..Cols(a) |-> [i \in 1..Rows(a) |-> a[i][j]]]

\* The matrix a without row i and column j.
Minor(a, i, j) ==
  [r \in 1..(Rows(a) - 1) |->
     [c \in 1..(Cols(a) - 1) |->
        a[IF r < i THEN r ELSE r + 1][IF c < j THEN c ELSE c + 1]]]

RECURSIVE Det(_)
Det(a) ==
  IF Rows(a) = 0 THEN 1
  ELSE SumTo([j \in 1..Cols(a) |->
                (IF j % 2 = 1 THEN 1 ELSE -1) * a[1][j] * Det(Minor(a, 1, j))],
             Cols(a))

\* Adjugate: Adj(a) * a = Det(a) * I.
Adj(a) ==
  [i \in 1..Rows(a) |->
     [j \in 1..Cols(a) |->
        (IF (i + j) % 2 = 0 THEN 1 ELSE -1) * Det(Minor(a, j, i))]]

\* The data matrix of a shape: entry (r, c) is (r + c + s) mod 2.
DataMat(n, d, s) == [r \in 1..n |-> [c \in 1..d |-> (r + c + s) % 2]]

\* ------------------------------------------------- collaborators
\* BasisFunction::Cosine::activations: act[i][j] = cos(periods[j,:].x[i,:] + phase[j])
Cos4(q) == CASE q % 4 = 0 -> 1
             [] q % 4 = 2 -> -1
             [] OTHER -> 0

CosineActivations(periods, phase, inputs) ==
  [i \in 1..Rows(inputs) |->
     [j \in 1..Rows(periods) |->
        Cos4(SumTo([c \in 1..Cols(inputs) |-> periods[j][c] * inputs[i][c]],
                   Cols(inputs)) + phase[j])]]

\* leastSquares(X, Y, use_offset = false, regularization):
\* (X'X + lambda I)^-1 X'Y, as numerators over the determinant.
Ridge(XtX, regularization) ==
  [i \in 1..Rows(XtX) |->
     [j \in 1..Rows(XtX) |-> XtX[i][j] + (IF i = j THEN regularization ELSE 0)]]

NormalSolve(A, XtY) == [num |-> MatMul(Adj(A), XtY), den |-> Det(A)]

leastSquares(X, Y, regularization) ==
  NormalSolve(Ridge(MatMul(Transpose(X), X), regularization), MatMul(Transpose(X), Y))

\* ------------------------------------------------- random numbers
\* boost::mt19937 seeded once per train call: the k-th number of the stream is
\* a function of the seed alone.  A full-period congruential generator stands
\* for the twister.
RECURSIVE Rng(_, _)
Rng(seed, k) == IF k = 0 THEN seed ELSE (5 * Rng(seed, k - 1) + 3) % 16

Sqrt(n) == CHOOSE r \in 0..n : r * r <= n /\ n < (r + 1) * (r + 1)

\* normal_distribution(0, sqrt(2 gamma)) driven by the k-th number of the stream.
NormalDraw(seed, k, gamma) == Sqrt(2 * gamma) * ((Rng(seed, k) % 3) - 1)
\* uniform_real(0, 2 pi) driven by the k-th number, in quarter turns.
UniformDraw(seed, k) == Rng(seed, k) % 4

\* ------------------------------------------------- parameter objects
Metas ==
  [dim : 1..MaxDim, nb : 1..MaxBasis, gamma : Gammas, regularization : Regularizations]

\* ModelParametersRRRFF(weights, cosines_periodes, cosines_phase)
ModelParametersRRRFF(weights, periods, phase) ==
  [weights |-> weights, periods |-> periods, phase |-> phase]

\* Model parameters a caller hands to the one-argument constructor.
GivenModels ==
  { ModelParametersRRRFF([num |-> <<1>>, den |-> 1], <<[c \in 1..d |-> 2]>>, <<1>>) :
      d \in 1..MaxDim }

\* ModelParametersRRRFF::cosineActivations
cosineActivations(model, inputs) ==
  CosineActivations(model.periods, model.phase, inputs)

\* FunctionApproximator(meta_parameters, model_parameters): both are cloned.
FunctionApproximator(meta_parameters, model_parameters) ==
  [meta |-> meta_parameters, model |-> model_parameters]

NoObj == [unconstructed |-> TRUE]

isTrained(obj) == obj.model # NULL

getExpectedInputDim(obj) ==
  IF obj.meta # NULL THEN obj.meta.dim ELSE Cols(obj.model.periods)

\* FunctionApproximator::generateInputsGrid for min = 0 and max = n - 1 in every
\* dimension: the n^d integer points, the last dimension varying fastest.
RECURSIVE Pow(_, _)
Pow(n, e) == IF e = 0 THEN 1 ELSE n * Pow(n, e - 1)

GridPoints(d, n) ==
  [i \in 1..Pow(n, d) |-> [c \in 1..d |-> ((i - 1) \div Pow(n, d - c)) % n]]

generateInputsGrid(min, max, n_samples_per_dim) ==
  GridPoints(Len(n_samples_per_dim), n_samples_per_dim[1])

\* ------------------------------------------------------------- state
VARIABLES
  fa,        \* each approximator: NoObj, or its meta- and model-parameter slots
  fs,        \* the files of the save directory: NoFile, or the matrix written
  last,      \* the last call: its arguments, what it did and what it returned
  running    \* FALSE once an assertion failure or a fault has ended the process

vars == <<fa, fs, last, running>>

NoFile == [absent |-> TRUE]
Void == "void"
EmptyMatrix == [num |-> <<>>, den |-> 1]

Call(op, obj, outcome, ret, args) ==
  [op |-> op, obj |-> obj, outcome |-> outcome, ret |-> ret, args |-> args]

\* The approximator "fa" as its constructor leaves it; "copy" is not yet made.
Constructed(meta_parameters, model_parameters) ==
  /\ fa = [a \in Approximators |->
             IF a = "fa" THEN FunctionApproximator(meta_parameters, model_parameters)
             ELSE NoObj]
  /\ fs = [f \in 1..Len(Files) |-> NoFile]
  /\ last = Call("construct", "fa", "ok", Void, [draws |-> 0, deref |-> "none"])
  /\ running = TRUE

Init ==
  \/ \E meta \in Metas : Constructed(meta, NULL)
  \/ \E model \in GivenModels : Constructed(NULL, model)

\* ------------------------------------------------------------- train
\* What VectorXd linear_model = <B x K matrix> leaves in the vector.  For
\* K = 1 it is the column.  For K > 1 Eigen's precondition is broken and the
\* outcome is the build's: an eigen_assert failure, the first column, or the
\* B*K coefficients in column-major order.
EigenBuilds == {"eigen_assert", "first_column", "flattened"}

Column(m, j) == [i \in 1..Rows(m) |-> m[i][j]]

Flatten(m) ==
  [i \in 1..(Rows(m) * Cols(m)) |-> m[((i - 1) % Rows(m)) + 1][((i - 1) \div Rows(m)) + 1]]

ToVectorXd(m, build) ==
  IF Cols(m) = 1 \/ build = "first_column" THEN Column(m, 1) ELSE Flatten(m)

\* train with its isTrained() guard left out.
trainRejects_dropped(obj) == FALSE

\* if (isTrained()) { warn; return; }
trainRejects(obj) == isTrained(obj)

\* train with its second assertion left out.
trainAsserts_rowsOnly(obj, inputs, targets) == Rows(inputs) = Rows(targets)

\* assert(inputs.rows() == targets.rows()); assert(inputs.cols() == getExpectedInputDim());
trainAsserts(obj, inputs, targets) ==
  /\ Rows(inputs) = Rows(targets)
  /\ Cols(inputs) = getExpectedInputDim(obj)

train(a, inputs, targets, seed, build) ==
  LET obj  == fa[a]
      args == [was_trained |-> isTrained(obj),
               mismatch |-> Rows(inputs) # Rows(targets)
                            \/ Cols(inputs) # getExpectedInputDim(obj)]
      \* solved: the columns of the targets the least-squares step was given
      \* (0: the call ended before it)
      stop(outcome, draws, deref, solved) ==
        /\ last' = Call("train", a, outcome, Void,
                        args @@ [draws |-> draws, deref |-> deref, solved |-> solved])
        /\ running' = FALSE
        /\ UNCHANGED <<fa, fs>>
  IN
  IF trainRejects(obj)
  THEN /\ last' = Call("train", a, "warning", Void,
                       args @@ [draws |-> 0, deref |-> "none", solved |-> 0])
       /\ UNCHANGED <<fa, fs, running>>
  ELSE IF ~trainAsserts(obj, inputs, targets)
  THEN stop("assert", 0, "none", 0)
  ELSE IF obj.meta = NULL
  THEN stop("fault", 0, "null", 0)
  ELSE
    LET meta   == obj.meta
        nb_cos == meta.nb
        cols   == Cols(inputs)
        cosines_periodes ==
          [r \in 1..nb_cos |->
             [c \in 1..cols |-> NormalDraw(seed, (r - 1) * cols + c, meta.gamma)]]
        cosines_phase ==
          [r \in 1..nb_cos |-> UniformDraw(seed, nb_cos * cols + r)]
        proj_inputs == CosineActivations(cosines_periodes, cosines_phase, inputs)
        solution == leastSquares(proj_inputs, targets, meta.regularization)
        draws == nb_cos * cols + nb_cos
    IN
    IF Cols(targets) > 1 /\ build = "eigen_assert"
    THEN stop("eigen_assert", draws, "none", Cols(targets))
    ELSE
      LET linear_model == [num |-> ToVectorXd(solution.num, build), den |-> solution.den]
      IN  /\ fa' = [fa EXCEPT ![a].model =
                      ModelParametersRRRFF(linear_model, cosines_periodes, cosines_phase)]
          /\ last' = Call("train", a, "ok", Void,
                          args @@ [draws |-> draws, deref |-> "none", solved |-> Cols(targets)])
          /\ UNCHANGED <<fs, running>>

Train ==
  /\ running
  /\ \E a \in Approximators, n \in 1..MaxRows, k \in 1..MaxOutDim :
       /\ fa[a] # NoObj
       \* The targets have the inputs' rows or one more (cyclically); the inputs
       \* have the expected columns or one more (cyclically).
       /\ \E nt \in {n, (n % MaxRows) + 1},
             d \in {getExpectedInputDim(fa[a]), (getExpectedInputDim(fa[a]) % MaxDim) + 1} :
            \* The seed and the build are read only by a call that gets to the fit.
            LET fits == ~isTrained(fa[a]) /\ n = nt /\ d = getExpectedInputDim(fa[a])
            IN  \E seed \in IF fits THEN Seeds ELSE {0},
                   build \in IF fits /\ k > 1 THEN EigenBuilds ELSE {"first_column"} :
                  train(a, DataMat(n, d, 0), DataMat(nt, k, 1), seed, build)

\* ------------------------------------------------------------- predict
AsColumn(v) == [i \in 1..Len(v) |-> <<v[i]>>]

\* What the caller's outputs matrix holds before the call.
CallerBuffers == {EmptyMatrix, [num |-> <<<<7>>>>, den |-> 1]}

\* outputs = proj_inputs * model->weights_
predictOutputs(model, inputs) ==
  [num |-> MatMul(cosineActivations(model, inputs), AsColumn(model.weights.num)),
   den |-> model.weights.den]

\* predict with its isTrained() guard left out.
predictRejects_dropped(obj) == FALSE

\* if (!isTrained()) { warn; return; }
predictRejects(obj) == ~isTrained(obj)

predict(a, inputs, outputs, build) ==
  LET obj == fa[a]
      done(outcome, deref, out) ==
        last' = Call("predict", a, outcome, Void,
                     [draws |-> 0, deref |-> deref, rows |-> Rows(inputs),
                      before |-> outputs, outputs |-> out])
  IN
  IF predictRejects(obj)
  THEN /\ done("warning", "none", outputs)
       /\ UNCHANGED <<fa, fs, running>>
  ELSE IF obj.model = NULL
  THEN /\ done("fault", "null", outputs)
       /\ running' = FALSE
       /\ UNCHANGED <<fa, fs>>
  \* proj_inputs * weights_ with weights_.rows() # proj_inputs.cols() breaks
  \* Eigen's precondition: an eigen_assert failure, or the product over the
  \* inner dimension proj_inputs.cols().
  ELSE IF Len(obj.model.weights.num) # Len(obj.model.phase) /\ build = "eigen_assert"
  THEN /\ done("eigen_assert", "model", outputs)
       /\ running' = FALSE
       /\ UNCHANGED <<fa, fs>>
  ELSE /\ done("ok", "model", predictOutputs(obj.model, inputs))
       /\ UNCHANGED <<fa, fs, running>>

Predict ==
  /\ running
  /\ \E a \in Approximators, m \in 1..MaxRows :
       /\ fa[a] # NoObj
       \* A trained approximator overwrites the buffer whatever it held; the
       \* build is read only when the weights do not fit the activations.
       /\ \E outputs \in IF isTrained(fa[a]) THEN {EmptyMatrix} ELSE CallerBuffers,
             build \in IF isTrained(fa[a])
                          /\ Len(fa[a].model.weights.num) # Len(fa[a].model.phase)
                       THEN EigenBuilds \ {"first_column"} ELSE {"first_column"} :
            predict(a, DataMat(m, getExpectedInputDim(fa[a]), 0), outputs, build)

\* ------------------------------------------------------------- clone
\* clone handing only the meta-parameters to the constructor.
clone_metaOnly(obj) == FunctionApproximator(obj.meta, NULL)

\* new FunctionApproximatorRRRFF(getMetaParameters(), getModelParameters())
clone(obj) == FunctionApproximator(obj.meta, obj.model)

Clone ==
  /\ running
  /\ \E src \in Approximators, dst \in Approximators :
       /\ fa[src] # NoObj
       /\ fa[dst] = NoObj
       /\ fa' = [fa EXCEPT ![dst] = clone(fa[src])]
       /\ last' = Call("clone", src, "ok", dst, [draws |-> 0, deref |-> "none"])
       /\ UNCHANGED <<fs, running>>

\* ------------------------------------------------------------- saveGridData
\* saveMatrix(directory, filename, matrix, overwrite): FALSE and no write when
\* the file exists and overwrite is off, or when the disk refuses the write.
saveMatrixOk(files, f, overwrite, disk_ok) ==
  disk_ok /\ (files[f] = NoFile \/ overwrite)

IntMatrix(m) == [num |-> m, den |-> 1]

\* What reading through a null ModelParametersRRRFF* can do: fault, or go on
\* with whatever model-shaped data the memory holds.
Fault == [fault |-> TRUE]

NullReads(d) == {Fault} \cup {g \in GivenModels : Cols(g.periods) = d}

\* activations_grid.col(b).array() *= weights(b)
WeightColumns(activations_grid, weights) ==
  [i \in 1..Rows(activations_grid) |->
     [b \in 1..Cols(activations_grid) |-> activations_grid[i][b] * weights[b]]]

\* activations_grid.rowwise().sum()
RowwiseSum(m) == [i \in 1..Rows(m) |-> <<SumTo(m[i], Cols(m))>>]

WeightedArtifacts(n_samples_per_dim, inputs_grid, activations_grid, weighted, den) ==
  << IntMatrix(AsColumn(n_samples_per_dim)),
     IntMatrix(inputs_grid),
     IntMatrix(activations_grid),
     [num |-> weighted, den |-> den],
     [num |-> RowwiseSum(weighted), den |-> den] >>

ActivationArtifacts(model, n_samples_per_dim, inputs_grid, activations_grid) ==
  WeightedArtifacts(n_samples_per_dim, inputs_grid, activations_grid,
                    WeightColumns(activations_grid, model.weights.num), model.weights.den)

\* The five matrices saveGridData hands to saveMatrix, in the order of Files.
gridArtifacts(model, n_samples_per_dim, inputs_grid) ==
  ActivationArtifacts(model, n_samples_per_dim, inputs_grid,
                      cosineActivations(model, inputs_grid))

\* saveGridData with its empty-directory return left out.
saveReturnsEarly_dropped(save_directory) == FALSE

\* if (save_directory.empty()) return true;
saveReturnsEarly(save_directory) == save_directory = ""

saveGridData(a, min, max, n_samples_per_dim, save_directory, overwrite, disk_ok, null_read) ==
  LET obj == fa[a]
      done(outcome, ret, deref, failed, written, replaced) ==
        last' = Call("saveGridData", a, outcome, ret,
                     [draws |-> 0, deref |-> deref, directory |-> save_directory,
                      failed |-> failed, written |-> written, replaced |-> replaced])
  IN
  IF saveReturnsEarly(save_directory)
  THEN /\ done("ok", "true", "none", 0, 0, 0)
       /\ UNCHANGED <<fa, fs, running>>
  ELSE IF obj.model = NULL /\ null_read = Fault
  THEN /\ done("fault", Void, "null", 0, 0, 0)
       /\ running' = FALSE
       /\ UNCHANGED <<fa, fs>>
  ELSE
    LET model_parameters_RRRFF == IF obj.model = NULL THEN null_read ELSE obj.model
        contents == gridArtifacts(model_parameters_RRRFF, n_samples_per_dim,
                                  generateInputsGrid(min, max, n_samples_per_dim))
        ok == [f \in 1..Len(Files) |-> saveMatrixOk(fs, f, overwrite, disk_ok)]
    IN  /\ fs' = [f \in 1..Len(Files) |-> IF ok[f] THEN contents[f] ELSE fs[f]]
        /\ done("ok", "true", IF obj.model = NULL THEN "null" ELSE "model",
                Cardinality({f \in 1..Len(Files) : ~ok[f]}),
                Cardinality({f \in 1..Len(Files) : ok[f]}),
                Cardinality({f \in 1..Len(Files) : ok[f] /\ fs[f] # NoFile}))
        /\ UNCHANGED <<fa, running>>

SaveGridData ==
  /\ running
  /\ \E a \in Approximators, n \in GridSamples, dir \in Directories :
       /\ fa[a] # NoObj
       \* The flag, the disk and the null read matter only past the early return.
       /\ LET d == getExpectedInputDim(fa[a])
          IN  \E overwrite \in IF dir # "" THEN BOOLEAN ELSE {FALSE},
                 disk_ok \in IF dir # "" THEN BOOLEAN ELSE {TRUE},
                 null_read \in IF fa[a].model = NULL /\ dir # "" THEN NullReads(d) ELSE {Fault} :
                saveGridData(a, [c \in 1..d |-> 0], [c \in 1..d |-> n - 1],
                             [c \in 1..d |-> n], dir, overwrite, disk_ok, null_read)

\* ------------------------------------------------------ specifications
\* One approximator's life: trained, queried and saved.
Next == Train \/ Predict \/ SaveGridData

Spec == Init /\ [][Next]_vars

\* An approximator and its clone.
InitClone ==
  \/ \E meta \in {m \in Metas : m.nb = MaxBasis /\ m.dim = 1 /\ m.regularization = 1} :
       Constructed(meta, NULL)
  \/ \E model \in {g \in GivenModels : Cols(g.periods) = 1} : Constructed(NULL, model)

NextClone == Train \/ Predict \/ SaveGridData \/ Clone

SpecClone == InitClone /\ [][NextClone]_vars

\* ------------------------------------------------------------- claims
Trained(a) == fa[a] # NoObj /\ isTrained(fa[a])

\* C1: train on an approximator that is already trained (by a first train, or
\* built from model parameters) does nothing: the approximator's meta- and
\* model-parameters are what they were, no random number is drawn, and the
\* call ends with the warning.
C1_TrainOnTrainedDoesNothing ==
  [][(last'.op = "train" /\ last'.args.was_trained)
       => /\ fa' = fa
          /\ last'.outcome = "warning"
          /\ last'.args.draws = 0
          /\ running']_vars

C1_Witness ==
  /\ last.op = "train" /\ last.args.was_trained /\ last.outcome = "warning"
  /\ fa[last.obj].meta # NULL

\* C2: predict on an untrained approximator returns normally with the warning,
\* leaves the caller's outputs as they were, reads no model, and leaves the
\* approximator untrained.
C2_PredictUntrainedDoesNothing ==
  [][(last'.op = "predict" /\ ~isTrained(fa[last'.obj]))
       => /\ last'.outcome = "warning"
          /\ last'.args.outputs = last'.args.before
          /\ last'.args.deref = "none"
          /\ fa' = fa
          /\ running']_vars

C2_Witness ==
  /\ last.op = "predict" /\ last.outcome = "warning"
  /\ last.args.before # EmptyMatrix /\ last.args.outputs = last.args.before

\* C3: a saveGridData call with a non-empty directory in which at least one
\* of the five writes failed does not return true, and replaced no file
\* (stated for the calls made on a trained approximator).
C3_SaveSurfacesWriteFailures ==
  (last.op = "saveGridData" /\ last.args.directory # "" /\ last.args.failed > 0
     /\ last.args.deref = "model")
    => (last.ret # "true" /\ last.args.replaced = 0)

\* C4: an approximator is trained exactly when it holds model parameters
\* (isTrained), and once it does, no train, predict, saveGridData or clone
\* call takes its model away or puts another in its place.
C4_TrainedIsOneWay ==
  [][\A a \in Approximators :
       Trained(a) => (fa'[a] # NoObj /\ fa'[a].model = fa[a].model)]_vars

C4_Witness ==
  /\ last.op = "saveGridData" /\ last.args.directory # ""
  /\ Trained("fa") /\ Trained("copy")
  /\ fa["fa"].meta # NULL
  /\ fa["fa"].model # fa["copy"].model

\* C5: clone leaves the source as it was and makes an approximator equal to it
\* (the same meta-parameters and the same model, or none), so that predict
\* gives the same outputs on both; and a train call changes only the
\* approximator it is called on.
C5_CloneIsIndependentCopy ==
  [][/\ last'.op = "clone"
          => /\ fa'[last'.obj] = fa[last'.obj]
             /\ fa'[last'.ret] = fa[last'.obj]
             /\ isTrained(fa[last'.obj])
                  => \A m \in 1..MaxRows :
                       LET inputs == DataMat(m, getExpectedInputDim(fa[last'.obj]), 0)
                       IN  predictOutputs(fa'[last'.ret].model, inputs)
                             = predictOutputs(fa[last'.obj].model, inputs)
     /\ last'.op = "train"
          => \A b \in Approximators \ {last'.obj} : fa'[b] = fa[b]]_vars

C5_Witness ==
  /\ last.op = "train" /\ last.obj = "copy" /\ last.outcome = "ok"
  /\ fa["copy"].meta = fa["fa"].meta
  /\ ~isTrained(fa["fa"])

\* C6: the model parameters a train call installs have as many weights as
\* rows of periods as phases, namely number_of_basis_functions, and periods
\* has one column per input dimension.
C6_InstalledModelShape ==
  (last.op = "train" /\ last.outcome = "ok")
    => LET meta  == fa[last.obj].meta
           model == fa[last.obj].model
       IN  /\ Len(model.weights.num) = meta.nb
           /\ Rows(model.periods) = meta.nb
           /\ Len(model.phase) = meta.nb
           /\ Cols(model.periods) = meta.dim

\* C7 as stated: a train call whose inputs and targets differ in rows, or whose
\* inputs have the wrong number of columns, ends in an assertion failure,
\* trained or not.
C7_MismatchAlwaysAsserts ==
  (last.op = "train" /\ last.args.mismatch)
    => (last.outcome = "assert" /\ ~running)

\* C7 as amended: such a call installs no model; on an untrained approximator
\* it ends in an assertion failure, on a trained one in the warning of C1.
C7_MismatchAssertsWhenUntrained ==
  [][(last'.op = "train" /\ last'.args.mismatch)
       => /\ fa' = fa
          /\ IF last'.args.was_trained
             THEN last'.outcome = "warning" /\ running'
             ELSE last'.outcome = "assert" /\ ~running']_vars

C7_Witness ==
  /\ last.op = "train" /\ last.args.mismatch /\ ~last.args.was_trained
  /\ last.outcome = "assert" /\ ~running

\* C8: a predict call that follows a train call on N x K targets returns, for
\* M input rows, the M x K matrix of the activations times the fitted weights.
C8_PredictReturnsMByK ==
  [][(last.op = "train" /\ last.outcome = "ok"
        /\ last'.op = "predict" /\ last'.obj = last.obj)
       => /\ last'.outcome = "ok"
          /\ Rows(last'.args.outputs.num) = last'.args.rows
          /\ Cols(last'.args.outputs.num) = last.args.solved]_vars

\* C9: saveGridData with an empty directory returns true, writes no file and
\* reads no model, whether the approximator is trained or not.
C9_EmptyDirectoryDoesNothing ==
  [][(last'.op = "saveGridData" /\ last'.args.directory = "")
       => /\ last'.ret = "true"
          /\ last'.args.deref = "none"
          /\ last'.args.written = 0
          /\ fs' = fs
          /\ fa' = fa
          /\ running']_vars

C9_Witness ==
  /\ last.op = "saveGridData" /\ last.args.directory = "" /\ last.ret = "true"
  /\ ~isTrained(fa[last.obj])

\* C10: saveGridData never reads through an absent ModelParameters.
C10_SaveNeverReadsAbsentModel ==
  last.op = "saveGridData" => last.args.deref # "null"
=============================================================================
